---- MODULE Spec2Model ----
(***************************************************************************)
(* The daemonization procedure of libs/daemon.py: daemonize(), _fork() and *)
(* _redirectFileDescriptors(), run by a lineage of three processes (the    *)
(* caller, the first child, the grandchild).  Every system call of the     *)
(* procedure is one step of the process that makes it.                     *)
(***************************************************************************)
EXTENDS Integers, Sequences, FiniteSets, TLC

\* ------------------------------------------------------------------------
\* Module constants of libs/daemon.py
\* ------------------------------------------------------------------------

\* 0o022, the mask of an ordinary shell, in the place of 0o077
UMASK_permissive == 16 + 2

\* 0o077
UMASK == 63

WORKDIR == "/"

MAXFD == 1024

NULL_DEVICE == "/dev/null"

\* resource.RLIM_INFINITY
RLIM_INFINITY == -1

\* ------------------------------------------------------------------------
\* Bounds of the model
\* ------------------------------------------------------------------------

\* Low descriptor numbers are 0..MaxFd; descriptor MaxFd is closed at entry.
MaxFd == 4

\* ------------------------------------------------------------------------
\* Processes, descriptors, files
\* ------------------------------------------------------------------------

Procs == {"orig", "child", "grand"}

Closed == "closed"

Tty == "/dev/pts/0"

LogFile == "logfile"

\* One descriptor at and above every scan bound of the model.
HighFd == MAXFD

FdNums == (0 .. MaxFd) \cup {HighFd}

\* Hard RLIMIT_NOFILE values of the caller.
Rlimits == {3, MaxFd + 1, RLIM_INFINITY}

\* The descriptor tables a caller may enter with.
EntryTables == {t \in [FdNums -> {Closed, Tty, LogFile}] : t[MaxFd] = Closed}

\* The tables of a caller that has only its three standard descriptors,
\* all on the same file.
StdTables ==
    {t \in EntryTables : t[1] = t[0] /\ t[2] = t[0]
                         /\ \A fd \in FdNums \ {0, 1, 2} : t[fd] = Closed}

\* The callers of the model: pid 2, started from a shell (pid 1) on a
\* terminal, either in the shell's session or leading its own; umask 0o022
\* or 0o077; `others' is the disposition of the signals other than SIGHUP.
\* Every table is tried with one choice of the other attributes, and every
\* choice of the attributes with the tables of StdTables.
EntryStates ==
    {e \in [pid : {2}, sid : {1, 2}, ctty : {TRUE},
            sighup : {"default", "ignore"}, others : {"default", "handler"},
            umask : {18, 63}, cwd : {"/", "/home/user"}, fds : EntryTables] :
        \/ e.fds \in StdTables
        \/ e.sid = 1 /\ e.sighup = "default" /\ e.others = "default"
           /\ e.umask = 18 /\ e.cwd = "/home/user"}

NoProc == [pid |-> 0, sid |-> 0, ctty |-> FALSE, sighup |-> "none",
           others |-> "none", umask |-> 0, cwd |-> "",
           fds |-> [fd \in FdNums |-> Closed]]

\* ------------------------------------------------------------------------
\* The cleanup script, src/tools/cleanup_db.py: constants and bounds
\* ------------------------------------------------------------------------

\* The most records a tracking table holds.
MaxRows == 2

\* The span of the values of int(time.time()).
MaxTime == 2

Ids == 1 .. MaxRows

\* The values of int(time.time()): they pass from one decimal digit to two.
Times == 9 .. (9 + MaxTime)

Tables == {"throttle_tracking", "greylisting_tracking"}

\* The records a table can hold under an id, and the empty place.
Rows(tbl) ==
    IF tbl = "throttle_tracking"
    THEN [present : {TRUE}, init_time : Times, period : {0, 1}]
    ELSE [present : {TRUE}, record_expired : Times]

Absent(tbl) ==
    IF tbl = "throttle_tracking"
    THEN [present |-> FALSE, init_time |-> 0, period |-> 0]
    ELSE [present |-> FALSE, record_expired |-> 0]

TableStates(tbl) == [Ids -> Rows(tbl) \cup {Absent(tbl)}]

\* The record of a table that expires first.
Oldest(tbl) ==
    IF tbl = "throttle_tracking"
    THEN [present |-> TRUE, init_time |-> 9, period |-> 0]
    ELSE [present |-> TRUE, record_expired |-> 9]

\* The databases the script is started on: every state of one table, the
\* other empty or with its oldest record alone.
DbStates ==
    {d \in [Tables -> UNION {TableStates(tbl) : tbl \in Tables}] :
        /\ \A tbl \in Tables : d[tbl] \in TableStates(tbl)
        /\ \E tbl \in Tables :
              /\ d[tbl][1] \in {Absent(tbl), Oldest(tbl)}
              /\ \A id \in Ids \ {1} : ~d[tbl][id].present}

VARIABLES posix, no_close, rlimit, proc, pc, steps, failed, result, status,
          atexit, warnings, raised, infos, entry

\* What _redirectFileDescriptors did: the descriptor numbers it handed to
\* os.ttyname, in order (as runs of consecutive numbers); the descriptors a
\* failed close left open; the descriptor numbers os.open returned.
VARIABLES examined, kept, nullfds

rvars == <<examined, kept, nullfds>>

\* Hangup signals: hup[p], a SIGHUP is pending for process p; hups[p], the
\* number of SIGHUPs process p has been delivered.
VARIABLES hup, hups

svars == <<hup, hups>>

dvars == <<posix, no_close, rlimit, proc, pc, steps, failed, result, status,
           atexit, warnings, raised, infos, entry, rvars, svars>>

\* The cleanup script: now, total_before and
\* total_after, the script's variables; cpc, the statement the script is
\* at; db, the tracking tables; logged, the figures of the '%d removed,
\* %d left' line of each table.  For each table, atdelete is the table as
\* the delete found it, deleted the ids the delete removed, swept whether
\* the delete has run, wrote whether another client changed the table
\* between the script's two counts.
VARIABLES now, cpc, db, total_before, total_after, logged, atdelete,
          deleted, swept, wrote

cvars == <<now, cpc, db, total_before, total_after, logged, atdelete,
           deleted, swept, wrote>>

vars == <<dvars, cvars>>

\* The script is not running.
CleanupOff ==
    /\ now = -1
    /\ cpc = [tbl |-> "", at |-> "off"]
    /\ db = [tbl \in Tables |-> [id \in Ids |-> Absent(tbl)]]
    /\ total_before = -1
    /\ total_after = -1
    /\ logged = [tbl \in Tables |-> << >>]
    /\ atdelete = [tbl \in Tables |-> [id \in Ids |-> Absent(tbl)]]
    /\ deleted = [tbl \in Tables |-> {}]
    /\ swept = {}
    /\ wrote = [tbl \in Tables |-> FALSE]

Init ==
    /\ posix \in BOOLEAN
    /\ no_close \in BOOLEAN
    /\ rlimit \in Rlimits
    /\ entry \in EntryStates
    /\ proc = [p \in Procs |-> IF p = "orig" THEN entry ELSE NoProc]
    /\ pc = [p \in Procs |-> IF p = "orig" THEN "daemonize" ELSE "unborn"]
    /\ steps = [p \in Procs |-> << >>]
    /\ failed = [p \in Procs |-> "none"]
    /\ result = [p \in Procs |-> "pending"]
    /\ status = [p \in Procs |-> -1]
    /\ atexit = [p \in Procs |-> 0]
    /\ warnings = 0
    /\ raised = [p \in Procs |-> 0]
    /\ infos = 0
    /\ examined = << >>
    /\ kept = {}
    /\ nullfds = << >>
    /\ hup = [p \in Procs |-> FALSE]
    /\ hups = [p \in Procs |-> 0]
    /\ CleanupOff

\* ------------------------------------------------------------------------
\* Helpers
\* ------------------------------------------------------------------------

\* Python's range(a, b)
range(a, b) == a .. (b - 1)

\* The values `for fd in range(a, b)' gives fd, in the order of the loop,
\* written as runs: <<lo, hi>> stands for lo, lo + 1, ..., hi.
Iterate(a, b) == IF a < b THEN << <<a, b - 1>> >> ELSE << >>

\* The step `op' completed in process p.
Logged(p, op) == [steps EXCEPT ![p] = Append(steps[p], <<op, p>>)]

\* The exception swallowed: the failure is noted and the body goes on.
Raise_continue(p, op) ==
    /\ pc' = pc
    /\ result' = result
    /\ raised' = [raised EXCEPT ![p] = raised[p] + 1]
    /\ failed' = [failed EXCEPT ![p] = op]

\* An exception leaves daemonize() through the handler of lines 169-170:
\* one DaemonError reaches the caller, nothing later in the body runs.
Raise(p, op) ==
    /\ pc' = [pc EXCEPT ![p] = "caller"]
    /\ result' = [result EXCEPT ![p] = "raised"]
    /\ raised' = [raised EXCEPT ![p] = raised[p] + 1]
    /\ failed' = [failed EXCEPT ![p] = op]

\* daemonize() returns normally to its caller.
Return(p) ==
    /\ pc' = [pc EXCEPT ![p] = "caller"]
    /\ result' = [result EXCEPT ![p] = "returned"]
    /\ UNCHANGED <<raised, failed>>

\* The pid the kernel hands to the next process: one not in use as a
\* process id or a session id.
NewPid ==
    LET used == {proc[q].pid : q \in Procs} \cup {proc[q].sid : q \in Procs}
    IN  1 + (CHOOSE m \in used : \A n \in used : n <= m)

\* The process image os.fork() gives the new process.
ForkImage(pr, newpid) == [pr EXCEPT !.pid = newpid]

\* setsid left out: the session of the caller is kept.
setsid_kept(pr) == pr

\* os.setsid(): the caller leads a new session and has no control terminal.
setsid(pr) == [pr EXCEPT !.sid = pr.pid, !.ctty = FALSE]

\* The call made for the wrong signal: SIGHUP keeps its disposition.
IgnoreSighup_wrong(pr) == [pr EXCEPT !.others = "ignore"]

\* signal.signal(signal.SIGHUP, signal.SIG_IGN)
IgnoreSighup(pr) == [pr EXCEPT !.sighup = "ignore"]

\* os.umask(UMASK)
SetUmask(pr) == [pr EXCEPT !.umask = UMASK]

\* os.chdir(WORKDIR)
Chdir(pr) == [pr EXCEPT !.cwd = WORKDIR]

\* sys.exit(0) in the place of os._exit(0): the atexit functions fire.
sys_exit(p) ==
    /\ pc' = [pc EXCEPT ![p] = "dead"]
    /\ result' = [result EXCEPT ![p] = "_exit"]
    /\ status' = [status EXCEPT ![p] = 0]
    /\ atexit' = [atexit EXCEPT ![p] = atexit[p] + 1]

\* os._exit(0): the process ends with status 0, no atexit function fires.
os__exit(p) ==
    /\ pc' = [pc EXCEPT ![p] = "dead"]
    /\ result' = [result EXCEPT ![p] = "_exit"]
    /\ status' = [status EXCEPT ![p] = 0]
    /\ UNCHANGED atexit

\* The flag ignored: the reclaimer always runs.
ClosesDescriptors_always(nc) == TRUE

\* `if not no_close'
ClosesDescriptors(nc) == ~nc

\* ------------------------------------------------------------------------
\* _redirectFileDescriptors
\* ------------------------------------------------------------------------

\* The fallback left out: an unlimited limit is used as the bound as it is.
ScanBound_nofallback(rl) == rl

\* maxfd of lines 188-190
ScanBound(rl) == IF rl = RLIM_INFINITY THEN MAXFD ELSE rl

\* os.ttyname(fd) returns (instead of raising) exactly for a terminal.
ttyname(t, fd) == fd \in DOMAIN t /\ t[fd] = Tty

\* The close left out: the descriptor stays as it is.
close_forgotten(t, fd, stuck) == t

\* os.close(fd).  A close that raises leaves the descriptor in the state
\* the platform chooses: released, or still open (fd \in stuck).
close(t, fd, stuck) == IF fd \in stuck THEN t ELSE [t EXCEPT ![fd] = Closed]

\* The terminal test left out: every descriptor of the range is closed.
ScanBody_all(t, fd, stuck) == close(t, fd, stuck)[fd]

\* One iteration of the loop of lines 194-207; it touches descriptor fd only.
ScanBody(t, fd, stuck) ==
    IF ~ttyname(t, fd) THEN t[fd] ELSE close(t, fd, stuck)[fd]

\* The loop of lines 194-207 over range(0, maxfd).
Scan(t, maxfd, stuck) ==
    [fd \in DOMAIN t |->
        IF fd \in range(0, maxfd) THEN ScanBody(t, fd, stuck) ELSE t[fd]]

\* The lowest descriptor number that is free.
LowestFree(t) ==
    CHOOSE fd \in 0 .. MaxFd :
        t[fd] = Closed /\ \A g \in 0 .. (fd - 1) : t[g] # Closed

\* os.open cannot hand out a descriptor number at or above the limit.
CanOpen(t, rl) == rl = RLIM_INFINITY \/ LowestFree(t) < rl

\* os.open(NULL_DEVICE, os.O_RDWR)
os_open(t) == [t EXCEPT ![LowestFree(t)] = NULL_DEVICE]

\* dup2 with its arguments taken the other way round.
dup2_reversed(t, old, new) == [t EXCEPT ![old] = t[new]]

\* os.dup2(old, new)
dup2(t, old, new) == [t EXCEPT ![new] = t[old]]

\* The descriptor table _redirectFileDescriptors leaves: failAt names the
\* call of lines 214-216 that raises ("none": the function completes).
_redirectFileDescriptors(t, rl, stuck, failAt) ==
    LET scanned == Scan(t, ScanBound(rl), stuck)
        opened  == os_open(scanned)
        dup1    == dup2(opened, 0, 1)
        dup2nd  == dup2(dup1, 0, 2)
    IN  CASE failAt = "open"   -> scanned
          [] failAt = "dup2_1" -> opened
          [] failAt = "dup2_2" -> dup1
          [] OTHER             -> dup2nd

\* ------------------------------------------------------------------------
\* daemonize: one action per step
\* ------------------------------------------------------------------------

\* Lines 129-131: not a POSIX system.
NotPosix ==
    /\ pc["orig"] = "daemonize"
    /\ ~posix
    /\ warnings' = warnings + 1
    /\ Return("orig")
    /\ UNCHANGED <<posix, no_close, rlimit, proc, steps, status, atexit,
                   infos, entry>>
    /\ UNCHANGED rvars
    /\ UNCHANGED svars
    /\ UNCHANGED cvars

\* The first fork without the platform test before it.
Fork1_unguarded ==
    /\ pc["orig"] = "daemonize"
    /\ \/ /\ proc' = [proc EXCEPT !["child"] = ForkImage(proc["orig"], NewPid)]
          /\ steps' = [steps EXCEPT
                         !["orig"] = Append(steps["orig"], <<"fork", "orig">>),
                         !["child"] = Append(steps["orig"], <<"fork", "orig">>)]
          /\ pc' = [pc EXCEPT !["orig"] = "os._exit", !["child"] = "setsid"]
          /\ UNCHANGED <<result, raised, failed>>
       \/ /\ Raise("orig", "fork")
          /\ UNCHANGED <<proc, steps>>
    /\ UNCHANGED <<posix, no_close, rlimit, status, atexit, warnings, infos,
                   entry>>
    /\ UNCHANGED rvars
    /\ UNCHANGED svars
    /\ UNCHANGED cvars

\* Line 136 with _fork (lines 178-182): first fork.
Fork1 ==
    /\ pc["orig"] = "daemonize"
    /\ posix
    /\ \/ /\ proc' = [proc EXCEPT !["child"] = ForkImage(proc["orig"], NewPid)]
          /\ steps' = [steps EXCEPT
                         !["orig"] = Append(steps["orig"], <<"fork", "orig">>),
                         !["child"] = Append(steps["orig"], <<"fork", "orig">>)]
          /\ pc' = [pc EXCEPT !["orig"] = "os._exit", !["child"] = "setsid"]
          /\ UNCHANGED <<result, raised, failed>>
       \/ /\ Raise("orig", "fork")
          /\ UNCHANGED <<proc, steps>>
    /\ UNCHANGED <<posix, no_close, rlimit, status, atexit, warnings, infos,
                   entry>>
    /\ UNCHANGED rvars
    /\ UNCHANGED svars
    /\ UNCHANGED cvars

\* `return' in the place of os._exit(0): the forking process goes on.
ParentReturn(p) ==
    /\ pc[p] = "os._exit"
    /\ Return(p)
    /\ UNCHANGED <<posix, no_close, rlimit, proc, steps, status, atexit,
                   warnings, infos, entry>>
    /\ UNCHANGED rvars
    /\ UNCHANGED svars
    /\ UNCHANGED cvars

\* The processes the exit of process p may hang up: when p leads a session
\* without a control terminal (the session its setsid made), the living
\* processes of that session.  Hangups of the caller's own terminal are
\* not in the model.
HungUpBy(p) ==
    IF proc[p].sid = proc[p].pid /\ ~proc[p].ctty
    THEN {q \in Procs \ {p} : pc[q] \notin {"unborn", "dead"}
                               /\ proc[q].sid = proc[p].sid}
    ELSE {}

\* Lines 137-140 and 153-155: the forking process leaves through os._exit(0).
\* Some platforms then send SIGHUP to the processes it leaves behind in
\* its session.
ParentExit(p) ==
    /\ pc[p] = "os._exit"
    /\ os__exit(p)
    /\ \E send \in BOOLEAN :
          hup' = [q \in Procs |-> hup[q] \/ (send /\ q \in HungUpBy(p))]
    /\ UNCHANGED hups
    /\ UNCHANGED <<posix, no_close, rlimit, proc, steps, failed, warnings,
                   raised, infos, entry>>
    /\ UNCHANGED rvars
    /\ UNCHANGED cvars

\* Line 145
Setsid ==
    /\ pc["child"] = "setsid"
    /\ \/ /\ proc' = [proc EXCEPT !["child"] = setsid(proc["child"])]
          /\ steps' = Logged("child", "setsid")
          /\ pc' = [pc EXCEPT !["child"] = "signal"]
          /\ UNCHANGED <<result, raised, failed>>
       \/ /\ Raise("child", "setsid")
          /\ UNCHANGED <<proc, steps>>
    /\ UNCHANGED <<posix, no_close, rlimit, status, atexit, warnings, infos,
                   entry>>
    /\ UNCHANGED rvars
    /\ UNCHANGED svars
    /\ UNCHANGED cvars

\* The signal call left out of its place before the second fork.
Signal_late ==
    /\ pc["child"] = "signal"
    /\ pc' = [pc EXCEPT !["child"] = "fork2"]
    /\ UNCHANGED <<posix, no_close, rlimit, proc, steps, failed, result,
                   status, atexit, warnings, raised, infos, entry>>
    /\ UNCHANGED rvars
    /\ UNCHANGED svars
    /\ UNCHANGED cvars

\* Line 148
Signal ==
    /\ pc["child"] = "signal"
    /\ \/ /\ proc' = [proc EXCEPT !["child"] = IgnoreSighup(proc["child"])]
          /\ steps' = Logged("child", "signal")
          /\ pc' = [pc EXCEPT !["child"] = "fork2"]
          /\ UNCHANGED <<result, raised, failed>>
       \/ /\ Raise("child", "signal")
          /\ UNCHANGED <<proc, steps>>
    /\ UNCHANGED <<posix, no_close, rlimit, status, atexit, warnings, infos,
                   entry>>
    /\ UNCHANGED rvars
    /\ UNCHANGED svars
    /\ UNCHANGED cvars

\* The second fork with a rollback: a failed fork puts the SIGHUP
\* disposition of the call's entry back before it raises.
Fork2_rollback ==
    /\ pc["child"] = "fork2"
    /\ \/ /\ proc' = [proc EXCEPT !["grand"] = ForkImage(proc["child"], NewPid)]
          /\ steps' = [steps EXCEPT
                         !["child"] = Append(steps["child"], <<"fork", "child">>),
                         !["grand"] = Append(steps["child"], <<"fork", "child">>)]
          /\ pc' = [pc EXCEPT !["child"] = "os._exit", !["grand"] = "umask"]
          /\ UNCHANGED <<result, raised, failed>>
       \/ /\ Raise("child", "fork")
          /\ proc' = [proc EXCEPT !["child"].sighup = entry.sighup]
          /\ UNCHANGED steps
    /\ UNCHANGED <<posix, no_close, rlimit, status, atexit, warnings, infos,
                   entry>>
    /\ UNCHANGED rvars
    /\ UNCHANGED svars
    /\ UNCHANGED cvars

\* Line 152 with _fork: second fork.
Fork2 ==
    /\ pc["child"] = "fork2"
    /\ \/ /\ proc' = [proc EXCEPT !["grand"] = ForkImage(proc["child"], NewPid)]
          /\ steps' = [steps EXCEPT
                         !["child"] = Append(steps["child"], <<"fork", "child">>),
                         !["grand"] = Append(steps["child"], <<"fork", "child">>)]
          /\ pc' = [pc EXCEPT !["child"] = "os._exit", !["grand"] = "umask"]
          /\ UNCHANGED <<result, raised, failed>>
       \/ /\ Raise("child", "fork")
          /\ UNCHANGED <<proc, steps>>
    /\ UNCHANGED <<posix, no_close, rlimit, status, atexit, warnings, infos,
                   entry>>
    /\ UNCHANGED rvars
    /\ UNCHANGED svars
    /\ UNCHANGED cvars

\* Line 158
Umask ==
    /\ pc["grand"] = "umask"
    /\ \/ /\ proc' = [proc EXCEPT !["grand"] = SetUmask(proc["grand"])]
          /\ steps' = Logged("grand", "umask")
          /\ pc' = [pc EXCEPT !["grand"] = "chdir"]
          /\ UNCHANGED <<result, raised, failed>>
       \/ /\ Raise("grand", "umask")
          /\ UNCHANGED <<proc, steps>>
    /\ UNCHANGED <<posix, no_close, rlimit, status, atexit, warnings, infos,
                   entry>>
    /\ UNCHANGED rvars
    /\ UNCHANGED svars
    /\ UNCHANGED cvars

\* Line 163
ChangeDir ==
    /\ pc["grand"] = "chdir"
    /\ \/ /\ proc' = [proc EXCEPT !["grand"] = Chdir(proc["grand"])]
          /\ steps' = Logged("grand", "chdir")
          /\ pc' = [pc EXCEPT !["grand"] = "no_close"]
          /\ UNCHANGED <<result, raised, failed>>
       \/ /\ Raise("grand", "chdir")
          /\ UNCHANGED <<proc, steps>>
    /\ UNCHANGED <<posix, no_close, rlimit, status, atexit, warnings, infos,
                   entry>>
    /\ UNCHANGED rvars
    /\ UNCHANGED svars
    /\ UNCHANGED cvars

\* Lines 166-167 with a wait that never ends in place of the return.
SkipRedirect_spin ==
    /\ pc["grand"] = "no_close"
    /\ ~ClosesDescriptors(no_close)
    /\ UNCHANGED vars

\* Lines 166-167 with no_close set: the reclaimer is skipped.
SkipRedirect ==
    /\ pc["grand"] = "no_close"
    /\ ~ClosesDescriptors(no_close)
    /\ Return("grand")
    /\ UNCHANGED <<posix, no_close, rlimit, proc, steps, status, atexit,
                   warnings, infos, entry>>
    /\ UNCHANGED rvars
    /\ UNCHANGED svars
    /\ UNCHANGED cvars

\* The reclaimer with a close loop that lets the exception of a failing
\* close escape: the scan stops at the first such descriptor.
Redirect_abort ==
    /\ pc["grand"] = "no_close"
    /\ ClosesDescriptors(no_close)
    /\ LET t == proc["grand"].fds
           ttys == {fd \in DOMAIN t : fd \in range(0, ScanBound(rlimit))
                                      /\ ttyname(t, fd)}
       IN  \E failing \in SUBSET ttys, keep \in BOOLEAN,
              failAt \in {"none", "open", "dup2_1", "dup2_2"} :
              LET stuck == IF keep THEN failing ELSE {}
                  first == CHOOSE fd \in failing : \A g \in failing : fd <= g
              IN  /\ failAt = "open" \/ CanOpen(Scan(t, ScanBound(rlimit), stuck), rlimit)
                  /\ infos' = infos
                  /\ kept' = stuck
                  /\ IF failing # {}
                     THEN /\ proc' = [proc EXCEPT !["grand"].fds =
                                         Scan(t, first + 1, stuck)]
                          /\ examined' = Iterate(0, first + 1)
                          /\ nullfds' = << >>
                          /\ steps' = steps
                          /\ Raise("grand", "close")
                     ELSE /\ proc' = [proc EXCEPT !["grand"].fds =
                                 _redirectFileDescriptors(t, rlimit, stuck, failAt)]
                          /\ examined' = Iterate(0, ScanBound(rlimit))
                          /\ nullfds' = IF failAt = "open" THEN << >>
                                 ELSE << LowestFree(Scan(t, ScanBound(rlimit), stuck)) >>
                          /\ IF failAt = "none"
                             THEN /\ steps' = Logged("grand", "redirect")
                                  /\ Return("grand")
                             ELSE /\ steps' = steps
                                  /\ Raise("grand", failAt)
    /\ UNCHANGED <<posix, no_close, rlimit, status, atexit, warnings, entry>>
    /\ UNCHANGED svars
    /\ UNCHANGED cvars

\* Lines 166-167 with no_close clear: the whole of _redirectFileDescriptors.
\* failing: the terminal descriptors whose close raises (absorbed and
\* logged); keep: whether such a close leaves its descriptor open.
Redirect ==
    /\ pc["grand"] = "no_close"
    /\ ClosesDescriptors(no_close)
    /\ LET t == proc["grand"].fds
           ttys == {fd \in DOMAIN t : fd \in range(0, ScanBound(rlimit))
                                      /\ ttyname(t, fd)}
       IN  \E failing \in SUBSET ttys, keep \in BOOLEAN,
              failAt \in {"none", "open", "dup2_1", "dup2_2"} :
              LET stuck == IF keep THEN failing ELSE {}
              IN  /\ failAt = "open" \/ CanOpen(Scan(t, ScanBound(rlimit), stuck), rlimit)
                  /\ proc' = [proc EXCEPT !["grand"].fds =
                        _redirectFileDescriptors(t, rlimit, stuck, failAt)]
                  /\ infos' = infos + Cardinality(failing)
                  /\ examined' = Iterate(0, ScanBound(rlimit))
                  /\ kept' = stuck
                  /\ nullfds' = IF failAt = "open" THEN << >>
                                 ELSE << LowestFree(Scan(t, ScanBound(rlimit), stuck)) >>
                  /\ IF failAt = "none"
                     THEN /\ steps' = Logged("grand", "redirect")
                          /\ Return("grand")
                     ELSE /\ steps' = steps
                          /\ Raise("grand", failAt)
    /\ UNCHANGED <<posix, no_close, rlimit, status, atexit, warnings, entry>>
    /\ UNCHANGED svars
    /\ UNCHANGED cvars

\* A pending SIGHUP is delivered to process p: discarded when p ignores
\* the signal, the end of p otherwise.
Hangup(p) ==
    /\ hup[p]
    /\ pc[p] \notin {"unborn", "dead"}
    /\ hup' = [hup EXCEPT ![p] = FALSE]
    /\ hups' = [hups EXCEPT ![p] = hups[p] + 1]
    /\ IF proc[p].sighup = "ignore"
       THEN UNCHANGED <<pc, result, status>>
       ELSE /\ pc' = [pc EXCEPT ![p] = "dead"]
            /\ result' = [result EXCEPT ![p] = "killed"]
            /\ status' = [status EXCEPT ![p] = 128 + 1]
    /\ UNCHANGED <<posix, no_close, rlimit, proc, steps, failed, atexit,
                   warnings, raised, infos, entry, rvars>>
    /\ UNCHANGED cvars

\* Lines 233-242: back in the caller, the process later ends the ordinary
\* way (sys.exit, or the uncaught DaemonError), which fires the atexit
\* functions.
ProcessEnd(p) ==
    /\ pc[p] = "caller"
    /\ pc' = [pc EXCEPT ![p] = "dead"]
    /\ atexit' = [atexit EXCEPT ![p] = atexit[p] + 1]
    /\ status' = [status EXCEPT ![p] = IF result[p] = "returned" THEN 0 ELSE 1]
    /\ UNCHANGED <<posix, no_close, rlimit, proc, steps, failed, result,
                   warnings, raised, infos, entry>>
    /\ UNCHANGED rvars
    /\ UNCHANGED svars
    /\ UNCHANGED cvars

Next ==
    \/ NotPosix
    \/ Fork1
    \/ \E p \in {"orig", "child"} : ParentExit(p)
    \/ Setsid
    \/ Signal
    \/ Fork2
    \/ Umask
    \/ ChangeDir
    \/ SkipRedirect
    \/ Redirect
    \/ \E p \in Procs : Hangup(p)
    \/ \E p \in Procs : ProcessEnd(p)

Spec == Init /\ [][Next]_vars

\* The steps of daemonize() in each process of the lineage.  Every call in
\* them is a blocking system call that returns, and the kernel schedules
\* every runnable process, so each process goes on taking its steps.
OrigSteps == NotPosix \/ Fork1 \/ ParentExit("orig")

ChildSteps == Setsid \/ Signal \/ Fork2 \/ ParentExit("child")

GrandSteps == Umask \/ ChangeDir \/ SkipRedirect \/ Redirect

\* The callers of the scheduled program: every table of descriptors 0, 1
\* and 2, one choice of the attributes the steps do not branch on.
LiveInit ==
    /\ Init
    /\ \A fd \in FdNums \ {0, 1, 2} : entry.fds[fd] = Closed
    /\ entry.sid = 1
    /\ entry.sighup = "default"
    /\ entry.others = "default"
    /\ entry.umask = 18
    /\ entry.cwd = "/home/user"

\* The program with its scheduling: what the caller does once daemonize()
\* is over, and whether a hangup is sent, is left open.
LiveSpec ==
    /\ LiveInit
    /\ [][Next]_vars
    /\ WF_vars(OrigSteps) /\ WF_vars(ChildSteps) /\ WF_vars(GrandSteps)

\* ------------------------------------------------------------------------
\* The cleanup script, src/tools/cleanup_db.py
\* ------------------------------------------------------------------------

\* '%d' % n for n >= 0: the decimal digits of n.
RECURSIVE FormatD(_)
FormatD(n) == IF n < 10 THEN <<n>> ELSE Append(FormatD(n \div 10), n % 10)

\* The number the SQL server reads from a string of decimal digits.
RECURSIVE ParseD(_)
ParseD(ds) ==
    IF ds = << >> THEN 0
    ELSE 10 * ParseD(SubSeq(ds, 1, Len(ds) - 1)) + ds[Len(ds)]

\* The where clause with the record whose expiry is now included.
throttle_where_inclusive(n) ==
    [expr |-> <<"init_time", "+", "period">>, op |-> "<=", lit |-> FormatD(n)]

\* Line 38: where='init_time + period < %d' % now
throttle_where(n) ==
    [expr |-> <<"init_time", "+", "period">>, op |-> "<", lit |-> FormatD(n)]

\* Line 55: where='record_expired < %d' % now
greylisting_where(n) ==
    [expr |-> <<"record_expired">>, op |-> "<", lit |-> FormatD(n)]

Where(tbl, n) ==
    IF tbl = "throttle_tracking" THEN throttle_where(n)
    ELSE greylisting_where(n)

\* The SQL server evaluates a where clause on a record.
Matches(row, w) ==
    LET lhs == IF w.expr = <<"init_time", "+", "period">>
               THEN row.init_time + row.period
               ELSE row.record_expired
        rhs == ParseD(w.lit)
    IN  IF w.op = "<" THEN lhs < rhs ELSE lhs <= rhs

\* tools.sql_count_id(conn, table): the number of records of the table.
sql_count_id(d, tbl) == Cardinality({id \in Ids : d[tbl][id].present})

\* conn.delete(table, where=...): the table without the matching records.
delete(t, tbl, w) ==
    [id \in Ids |-> IF t[id].present /\ Matches(t[id], w)
                    THEN Absent(tbl) ELSE t[id]]

At(tbl, at) == [tbl |-> tbl, at |-> at]

\* Lines 24-26: now = int(time.time()), then the database connection.
CaptureNow ==
    /\ cpc = At("", "start")
    /\ \E t \in Times : now' = t
    /\ cpc' = At("throttle_tracking", "count_before")
    /\ UNCHANGED <<db, total_before, total_after, logged, atdelete,
                   deleted, swept, wrote>>
    /\ UNCHANGED dvars

\* Lines 34 and 52: total_before = sql_count_id(...)
CountBefore(tbl) ==
    /\ cpc = At(tbl, "count_before")
    /\ total_before' = sql_count_id(db, tbl)
    /\ cpc' = At(tbl, "delete")
    /\ UNCHANGED <<now, db, total_after, logged, atdelete, deleted,
                   swept, wrote>>
    /\ UNCHANGED dvars

\* Lines 37-38 and 55: conn_iredapd.delete(...)
Delete(tbl) ==
    /\ cpc = At(tbl, "delete")
    /\ db' = [db EXCEPT ![tbl] = delete(db[tbl], tbl, Where(tbl, now))]
    /\ atdelete' = [atdelete EXCEPT ![tbl] = db[tbl]]
    /\ deleted' = [deleted EXCEPT
                     ![tbl] = {id \in Ids : db[tbl][id].present
                                            /\ ~db'[tbl][id].present}]
    /\ swept' = swept \cup {tbl}
    /\ cpc' = At(tbl, "count_after")
    /\ UNCHANGED <<now, total_before, total_after, logged, wrote>>
    /\ UNCHANGED dvars

\* Lines 41 and 58: total_after = sql_count_id(...)
CountAfter(tbl) ==
    /\ cpc = At(tbl, "count_after")
    /\ total_after' = sql_count_id(db, tbl)
    /\ cpc' = At(tbl, "log")
    /\ UNCHANGED <<now, db, total_before, logged, atdelete, deleted,
                   swept, wrote>>
    /\ UNCHANGED dvars

\* Lines 43 and 60: the '%d removed, %d left' line, then the next table.
LogRemoved(tbl) ==
    /\ cpc = At(tbl, "log")
    /\ logged' = [logged EXCEPT
                    ![tbl] = <<total_before - total_after, total_after>>]
    /\ cpc' = IF tbl = "throttle_tracking"
              THEN At("greylisting_tracking", "count_before")
              ELSE At("", "done")
    /\ UNCHANGED <<now, db, total_before, total_after, atdelete,
                   deleted, swept, wrote>>
    /\ UNCHANGED dvars

\* Another client of the database inserts a record into the table, or
\* removes one, between the script's two counts of it.  A write at another
\* moment is the script started on another database.
OtherWriter(tbl) ==
    /\ cpc \in {At(tbl, "delete"), At(tbl, "count_after")}
    /\ ~wrote[tbl]
    /\ \E id \in Ids, row \in Rows(tbl) \cup {Absent(tbl)} :
          /\ row.present # db[tbl][id].present
          /\ db' = [db EXCEPT ![tbl][id] = row]
    /\ wrote' = [wrote EXCEPT ![tbl] = TRUE]
    /\ UNCHANGED <<now, cpc, total_before, total_after, logged,
                   atdelete, deleted, swept>>
    /\ UNCHANGED dvars

\* The script is started; daemonize() is not called.
InitCleanup ==
    /\ posix = TRUE
    /\ no_close = FALSE
    /\ rlimit = RLIM_INFINITY
    /\ entry = CHOOSE e \in EntryStates : TRUE
    /\ proc = [p \in Procs |-> NoProc]
    /\ pc = [p \in Procs |-> "unborn"]
    /\ steps = [p \in Procs |-> << >>]
    /\ failed = [p \in Procs |-> "none"]
    /\ result = [p \in Procs |-> "pending"]
    /\ status = [p \in Procs |-> -1]
    /\ atexit = [p \in Procs |-> 0]
    /\ warnings = 0
    /\ raised = [p \in Procs |-> 0]
    /\ infos = 0
    /\ examined = << >>
    /\ kept = {}
    /\ nullfds = << >>
    /\ hup = [p \in Procs |-> FALSE]
    /\ hups = [p \in Procs |-> 0]
    /\ now = -1
    /\ cpc = At("", "start")
    /\ db \in DbStates
    /\ total_before = -1
    /\ total_after = -1
    /\ logged = [tbl \in Tables |-> << >>]
    /\ atdelete = [tbl \in Tables |-> [id \in Ids |-> Absent(tbl)]]
    /\ deleted = [tbl \in Tables |-> {}]
    /\ swept = {}
    /\ wrote = [tbl \in Tables |-> FALSE]

NextCleanup ==
    \/ CaptureNow
    \/ \E tbl \in Tables : CountBefore(tbl)
    \/ \E tbl \in Tables : Delete(tbl)
    \/ \E tbl \in Tables : CountAfter(tbl)
    \/ \E tbl \in Tables : LogRemoved(tbl)
    \/ \E tbl \in Tables : OtherWriter(tbl)

SpecCleanup == InitCleanup /\ [][NextCleanup]_vars

\* ------------------------------------------------------------------------
\* Properties
\* ------------------------------------------------------------------------

Born(p) == pc[p] # "unborn"

Returned(p) == result[p] = "returned"

\* Number of times step e stands in the history s.
Count(s, e) == Cardinality({i \in 1 .. Len(s) : s[i] = e})

IsPrefix(s, t) == Len(s) <= Len(t) /\ \A i \in 1 .. Len(s) : s[i] = t[i]

\* C1: on POSIX the process in which daemonize() returns is in a session
\* other than the caller's, it is not the leader of that session (the
\* leader is the first child, which called setsid) and it has no control
\* terminal; not leading a session, it cannot acquire one by opening a
\* terminal.
C1_NewSessionNotLeader ==
    \A p \in Procs :
        (posix /\ Returned(p)) =>
            /\ proc[p].sid # entry.sid
            /\ proc[p].sid # proc[p].pid
            /\ proc[p].sid = proc["child"].pid
            /\ Count(steps[p], <<"setsid", "child">>) = 1
            /\ ~proc[p].ctty

\* C1 witness: daemonize() returned for a caller that led its own session.
C1_Witness ==
    /\ posix
    /\ Returned("grand")
    /\ entry.sid = entry.pid

\* The seven steps of daemonize(no_close=False) with the process of each.
Lineage ==
    << <<"fork", "orig">>, <<"setsid", "child">>, <<"signal", "child">>,
       <<"fork", "child">>, <<"umask", "grand">>, <<"chdir", "grand">>,
       <<"redirect", "grand">> >>

\* C2: with no_close clear on POSIX, what a process and its ancestors have
\* completed is at every moment a prefix of: first fork (original process),
\* setsid, SIGHUP ignored (first child), second fork (first child), umask,
\* chdir, descriptor cleanup (grandchild); the process daemonize() returns
\* in has all seven.
C2_StepOrder ==
    (posix /\ ~no_close) =>
        /\ \A p \in Procs : IsPrefix(steps[p], Lineage)
        /\ \A p \in Procs : Returned(p) => steps[p] = Lineage

\* C2 witness: daemonize(no_close=False) returned in the grandchild while
\* both ancestors are still on their way out.
C2_Witness ==
    /\ posix
    /\ ~no_close
    /\ Returned("grand")
    /\ pc["orig"] = "os._exit"
    /\ pc["child"] = "os._exit"

\* C3: on POSIX daemonize() returns in the grandchild only; the original
\* process and the first child never return: once its fork has returned a
\* child's pid, each has nothing left to do but end with status 0.
C3_OnlyGrandchildReturns ==
    posix =>
        /\ \A p \in Procs : Returned(p) => p = "grand"
        /\ \A p \in {"orig", "child"} :
              Count(steps[p], <<"fork", p>>) = 1 =>
                  /\ pc[p] \in {"os._exit", "dead"}
                  /\ result[p] \in {"pending", "_exit"}
                  /\ pc[p] = "dead" => (result[p] = "_exit" /\ status[p] = 0)
                  /\ steps[p][Len(steps[p])] = <<"fork", p>>

\* C3 witness: the grandchild has returned, both ancestors have ended.
C3_Witness ==
    /\ posix
    /\ Returned("grand")
    /\ pc["orig"] = "dead"
    /\ pc["child"] = "dead"

\* C4: a process that ends inside daemonize() fires no atexit function, and
\* over the whole lineage the atexit functions fire in at most one process,
\* once.
C4_HooksAtMostOnce ==
    /\ \A p \in Procs : result[p] = "_exit" => atexit[p] = 0
    /\ \A p \in Procs : atexit[p] <= 1
    /\ Cardinality({p \in Procs : atexit[p] > 0}) <= 1

\* C4 witness: both ancestors ended inside daemonize(), the daemon ended
\* later and fired the atexit functions.
C4_Witness ==
    /\ result["orig"] = "_exit"
    /\ result["child"] = "_exit"
    /\ pc["orig"] = "dead"
    /\ pc["child"] = "dead"
    /\ Returned("grand")
    /\ atexit["grand"] = 1

\* C5: off POSIX daemonize() forks nothing and changes nothing (session,
\* signal disposition, umask, directory, descriptors), and once it is over
\* it has warned exactly once and returned without raising.
C5_NoOpOffPosix ==
    ~posix =>
        /\ proc = [p \in Procs |-> IF p = "orig" THEN entry ELSE NoProc]
        /\ \A p \in Procs : steps[p] = << >> /\ raised[p] = 0
        /\ ~Born("child") /\ ~Born("grand")
        /\ infos = 0
        /\ IF pc["orig"] = "daemonize"
           THEN warnings = 0
           ELSE warnings = 1 /\ Returned("orig")

\* C5 witness: daemonize(no_close=False) is over off POSIX, the caller
\* holding terminal descriptors.
C5_Witness ==
    /\ ~posix
    /\ ~no_close
    /\ pc["orig"] = "caller"
    /\ entry.fds[0] = Tty

\* C6: on POSIX the process daemonize() returns in has umask 0o077 and
\* working directory "/", whatever the caller's were, and set each once.
C6_UmaskAndCwd ==
    \A p \in Procs :
        (posix /\ Returned(p)) =>
            /\ proc[p].umask = 63
            /\ proc[p].cwd = "/"
            /\ Count(steps[p], <<"umask", p>>) = 1
            /\ Count(steps[p], <<"chdir", p>>) = 1

\* C6 witness: daemonize() returned for a caller with another umask and
\* another directory.
C6_Witness ==
    /\ posix
    /\ Returned("grand")
    /\ entry.umask # 63
    /\ entry.cwd # "/"

\* _redirectFileDescriptors ran to its end in process p.
Redirected(p) == Count(steps[p], <<"redirect", p>>) = 1

\* C7: after _redirectFileDescriptors completes, descriptors 0, 1 and 2
\* all refer to the null device, whatever the descriptor table was.
C7_StdioIsNull ==
    \A p \in Procs :
        Redirected(p) => \A fd \in {0, 1, 2} : proc[p].fds[fd] = NULL_DEVICE

\* C8: a descriptor other than 0, 1, 2 that was open on something that is
\* not a terminal when daemonize() was entered is on the same file in
\* every process of the lineage at every moment, before, during and after
\* _redirectFileDescriptors.
C8_NonTtyKept ==
    \A p \in Procs : \A fd \in FdNums \ {0, 1, 2} :
        (Born(p) /\ entry.fds[fd] \notin {Closed, Tty}) =>
            proc[p].fds[fd] = entry.fds[fd]

\* C8 witness: _redirectFileDescriptors completed with a log file on
\* descriptor 3 inside the scanned range, the null device opened right
\* above it on the only free number.
C8_Witness ==
    /\ Redirected("grand")
    /\ 3 < ScanBound(rlimit)
    /\ entry.fds[3] = LogFile
    /\ proc["grand"].fds[3] = LogFile
    /\ proc["grand"].fds[MaxFd] = NULL_DEVICE

C10_NoCloseKeepsTable ==
    no_close =>
        /\ \A p \in Procs : Born(p) => proc[p].fds = entry.fds
        /\ \A p \in Procs : ~Redirected(p)
        /\ infos = 0

\* C10 witness: daemonize(no_close=True) returned in the grandchild of a
\* caller with a terminal on descriptor 0.
C10_Witness ==
    /\ posix
    /\ no_close
    /\ Returned("grand")
    /\ entry.fds[0] = Tty
    /\ proc["grand"].fds[0] = Tty

\* Number of descriptor numbers in a sequence of runs.
RECURSIVE RunsLen(_)
RunsLen(runs) ==
    IF runs = << >> THEN 0
    ELSE (runs[1][2] - runs[1][1] + 1) + RunsLen(Tail(runs))

\* C11: the scan hands os.ttyname exactly the numbers 0 .. bound-1, once
\* each, in increasing order (one run from 0 to bound-1), where bound is the
\* hard RLIMIT_NOFILE when it is finite and 1024 when it is unlimited; with
\* an unlimited limit no more than 1024 descriptors are examined.
C11_ScanRange ==
    \A p \in Procs :
        (Redirected(p) \/ failed[p] \in {"open", "dup2_1", "dup2_2"}) =>
            /\ examined = << <<0, (IF rlimit = -1 THEN 1024 ELSE rlimit) - 1>> >>
            /\ rlimit = -1 => RunsLen(examined) <= 1024

\* C11 witness: the scan ran with an unlimited hard limit and examined
\* descriptor 1023 last, leaving a terminal on descriptor 1024.
C11_Witness ==
    /\ Redirected("grand")
    /\ rlimit = RLIM_INFINITY
    /\ RunsLen(examined) = MAXFD
    /\ examined[Len(examined)][2] = MAXFD - 1
    /\ proc["grand"].fds[HighFd] = Tty

\* Place in Lineage of the step in which call op of process p lies.
FailIndex(op, p) ==
    CASE op = "fork" /\ p = "orig"  -> 1
      [] op = "setsid"              -> 2
      [] op = "signal"              -> 3
      [] op = "fork" /\ p = "child" -> 4
      [] op = "umask"               -> 5
      [] op = "chdir"               -> 6
      [] OTHER                      -> 7

\* Number of descriptors of table t that are on the null device.
NullCount(t) == Cardinality({fd \in FdNums : t[fd] = NULL_DEVICE})

\* C12: on POSIX a failing first fork, setsid, signal call, second fork,
\* umask, chdir, null-device open or dup2 makes daemonize() raise exactly
\* one DaemonError, with the failing call as its cause, in the process that
\* made the call; that process has completed the steps before the failing
\* one and nothing after it, and the failing call is not made again.
C12_FailureRaisesOnce ==
    \A p \in Procs :
        /\ raised[p] <= 1
        /\ (raised[p] = 1) <=> (failed[p] # "none")
        /\ failed[p] \in
              (CASE p = "orig"  -> {"none", "fork"}
                 [] p = "child" -> {"none", "setsid", "signal", "fork"}
                 [] OTHER       -> {"none", "umask", "chdir", "open",
                                    "dup2_1", "dup2_2"})
        /\ failed[p] # "none" =>
              /\ posix
              /\ result[p] = "raised"
              /\ pc[p] \in {"caller", "dead"}
              /\ steps[p] = SubSeq(Lineage, 1, FailIndex(failed[p], p) - 1)
        /\ failed[p] = "fork" =>
              ~Born(IF p = "orig" THEN "child" ELSE "grand")
        /\ failed[p] = "setsid" => proc[p].sid = entry.sid
        /\ failed[p] \in {"setsid", "signal"} =>
              proc[p].sighup = entry.sighup
        /\ failed[p] = "umask" => proc[p].umask = entry.umask
        /\ failed[p] \in {"umask", "chdir"} =>
              proc[p].cwd = entry.cwd /\ proc[p].fds = entry.fds
        /\ failed[p] = "open" =>
              nullfds = << >> /\ NullCount(proc[p].fds) = 0
        /\ failed[p] = "dup2_1" =>
              Len(nullfds) = 1 /\ NullCount(proc[p].fds) = 1
        /\ failed[p] = "dup2_2" =>
              /\ Len(nullfds) = 1
              /\ proc[p].fds[1] = proc[p].fds[0]
              /\ proc[p].fds[2] = NULL_DEVICE => nullfds[1] = 2

\* C12 witness: the second dup2 failed in the grandchild after the null
\* device was opened on descriptor 0 and duplicated onto descriptor 1.
C12_Witness ==
    /\ failed["grand"] = "dup2_2"
    /\ raised["grand"] = 1
    /\ nullfds = <<0>>
    /\ proc["grand"].fds[1] = NULL_DEVICE
    /\ proc["grand"].fds[2] = Closed

\* The process of the lineage that ran the reclaimer is past it.
PastRedirect(p) ==
    Redirected(p) \/ failed[p] \in {"close", "open", "dup2_1", "dup2_2"}

\* C13: a close of a terminal descriptor that fails during the scan does
\* not abort anything: no exception of a close leaves the reclaimer, the
\* scan still covers the whole range and closes the other terminals, the
\* open and the two dup2 calls are still made, and unless one of those
\* fails daemonize() returns without raising.
C13_CloseFailureAbsorbed ==
    \A p \in Procs :
        (PastRedirect(p) /\ (infos > 0 \/ failed[p] = "close")) =>
            /\ failed[p] # "close"
            /\ examined = << <<0, (IF rlimit = -1 THEN 1024 ELSE rlimit) - 1>> >>
            /\ \A fd \in FdNums :
                  (2 < fd /\ fd < (IF rlimit = -1 THEN 1024 ELSE rlimit)
                   /\ proc[p].fds[fd] = Tty) => fd \in kept
            /\ failed[p] = "none" =>
                  /\ Returned(p)
                  /\ raised[p] = 0
                  /\ Len(nullfds) = 1
                  /\ proc[p].fds[1] = proc[p].fds[0]
                  /\ proc[p].fds[2] = proc[p].fds[0]

\* C13 witness: the close of the terminal on descriptor 0 failed, the scan
\* went on to descriptor 3, whose close failed too, and daemonize()
\* returned with the null device on 0, 1 and 2.
C13_Witness ==
    /\ Returned("grand")
    /\ infos = 2
    /\ entry.fds[0] = Tty
    /\ entry.fds[3] = Tty
    /\ kept = {}
    /\ proc["grand"].fds[0] = NULL_DEVICE
    /\ proc["grand"].fds[2] = NULL_DEVICE
    /\ proc["grand"].fds[3] = Closed

\* C14: the grandchild ignores SIGHUP from its creation on, so whenever the
\* SIGHUP of the exiting session leader reaches it, before or after any of
\* its remaining steps, it is not ended by it; daemonize() changes no
\* disposition but that of SIGHUP, and that in the first child and its
\* descendant only.
C14_HangupIgnored ==
    /\ Born("grand") => proc["grand"].sighup = "ignore"
    /\ \A p \in Procs : result[p] # "killed"
    /\ \A p \in Procs : Born(p) => proc[p].others = entry.others
    /\ proc["orig"].sighup = entry.sighup

\* C14 witness: the first child has exited and its SIGHUP was delivered to
\* the grandchild before the grandchild's first step; the caller had SIGHUP
\* at its default and a handler on other signals.
C14_Witness ==
    /\ pc["child"] = "dead"
    /\ pc["grand"] = "umask"
    /\ hups["grand"] = 1
    /\ entry.sighup = "default"
    /\ entry.others = "handler"

\* C15 as stated: when the second fork fails the first child raises while
\* it leads its session, ignores SIGHUP and has the umask, working
\* directory and descriptors of the call's entry, the original process
\* having already exited with status 0; when the first fork fails the
\* original process raises with everything as at entry.
C15_NoRollback ==
    /\ failed["child"] = "fork" =>
           /\ raised["child"] = 1
           /\ proc["child"].sid = proc["child"].pid
           /\ proc["child"].sighup = "ignore"
           /\ proc["child"].umask = entry.umask
           /\ proc["child"].cwd = entry.cwd
           /\ proc["child"].fds = entry.fds
           /\ pc["orig"] = "dead" /\ status["orig"] = 0
    /\ failed["orig"] = "fork" =>
           /\ raised["orig"] = 1
           /\ proc["orig"] = entry

\* C15 amended: as above, but the original process, whose exit is not
\* ordered with the steps of the first child, has exited with status 0 or
\* has only its os._exit(0) left to do.
C15_NoRollbackExitPending ==
    /\ failed["child"] = "fork" =>
           /\ raised["child"] = 1
           /\ proc["child"].sid = proc["child"].pid
           /\ proc["child"].sighup = "ignore"
           /\ proc["child"].umask = entry.umask
           /\ proc["child"].cwd = entry.cwd
           /\ proc["child"].fds = entry.fds
           /\ \/ pc["orig"] = "dead" /\ status["orig"] = 0
              \/ pc["orig"] = "os._exit"
           /\ result["orig"] \in {"pending", "_exit"}
    /\ failed["orig"] = "fork" =>
           /\ raised["orig"] = 1
           /\ proc["orig"] = entry
           /\ ~Born("child")

\* C15 witness: the second fork has failed in the first child of a caller
\* that had SIGHUP at its default and umask 0o022, and the original
\* process has not exited yet.
C15_Witness ==
    /\ failed["child"] = "fork"
    /\ result["child"] = "raised"
    /\ pc["orig"] = "os._exit"
    /\ entry.sighup = "default"
    /\ entry.umask = 18
    /\ entry.fds[0] = Tty

\* C16: for a caller whose descriptor 0 is a terminal at entry, in the
\* process a successful daemonize(False) returns in, descriptors 0, 1 and
\* 2 are the null device, every descriptor from 3 up that was open on
\* something that is not a terminal is on the same file, the working
\* directory is "/", the umask is 0o077 and the pid is not the caller's.
C16_TtyCallerOutcome ==
    \A p \in Procs :
        (posix /\ ~no_close /\ entry.fds[0] = Tty /\ Returned(p)) =>
            /\ \A fd \in {0, 1, 2} : proc[p].fds[fd] = NULL_DEVICE
            /\ \A fd \in FdNums \ {0, 1, 2} :
                   entry.fds[fd] \notin {Closed, Tty} =>
                       proc[p].fds[fd] = entry.fds[fd]
            /\ proc[p].cwd = "/"
            /\ proc[p].umask = 63
            /\ proc[p].pid # entry.pid

\* Descriptor fd is free once the scan is over: it was closed at entry, or
\* it was a terminal below the scan bound and its close did not leave it
\* open.
FreeAfterScan(fd) ==
    \/ entry.fds[fd] = Closed
    \/ /\ fd < (IF rlimit = -1 THEN 1024 ELSE rlimit)
       /\ entry.fds[fd] = Tty
       /\ fd \notin kept

\* C17: whenever _redirectFileDescriptors completes, for every descriptor
\* table, descriptor 0 is open, descriptors 1 and 2 are on the file of
\* descriptor 0 whatever they were on before, and the null device was
\* opened exactly once, on the lowest descriptor free after the scan.
C17_DupOntoStdio ==
    \A p \in Procs :
        Redirected(p) =>
            /\ proc[p].fds[0] # Closed
            /\ proc[p].fds[1] = proc[p].fds[0]
            /\ proc[p].fds[2] = proc[p].fds[0]
            /\ Len(nullfds) = 1
            /\ FreeAfterScan(nullfds[1])
            /\ \A fd \in FdNums : fd < nullfds[1] => ~FreeAfterScan(fd)
            /\ nullfds[1] \notin {1, 2} => proc[p].fds[nullfds[1]] = NULL_DEVICE

\* C17 witness: _redirectFileDescriptors completed for a caller with
\* a terminal on descriptor 0 and a log file on descriptors 1 and 2, which
\* are on the null device afterwards.
C17_Witness ==
    /\ Redirected("grand")
    /\ entry.fds[0] = Tty
    /\ entry.fds[1] = LogFile
    /\ entry.fds[2] = LogFile
    /\ nullfds = <<0>>
    /\ \A fd \in {0, 1, 2} : proc["grand"].fds[fd] = NULL_DEVICE

\* The processes alive, the fork calls made, and the invocation being over
\* in every process.
Alive == {p \in Procs : pc[p] \notin {"unborn", "dead"}}

ForkCalls ==
    Cardinality({p \in {"child", "grand"} : Born(p)})
        + Cardinality({p \in Procs : failed[p] = "fork"})

AllDone == \A p \in Procs : pc[p] \in {"unborn", "caller", "dead"}

\* C18: daemonize() terminates in every process of the lineage: on POSIX
\* the original process and the first child exit or raise and the
\* grandchild returns or raises (off POSIX the one process returns); at
\* most two forks are made and at most three processes take part; when a
\* successful run is over in every process, the grandchild is the only one
\* of them alive.
C18_Terminates ==
    /\ <>AllDone
    /\ posix => <>(result["orig"] \in {"_exit", "raised"})
    /\ Born("child") ~> (result["child"] \in {"_exit", "raised"})
    /\ Born("grand") ~> (result["grand"] \in {"returned", "raised"})
    /\ [](/\ ForkCalls <= 2
          /\ \A p, q \in Procs : Count(steps[p], <<"fork", q>>) <= 1
          /\ Cardinality({proc[p].pid : p \in {q \in Procs : Born(q)}})
                 = Cardinality({q \in Procs : Born(q)})
          /\ Cardinality({q \in Procs : Born(q)}) <= 3
          /\ (AllDone /\ Returned("grand") /\ pc["grand"] = "caller") =>
                 Alive = {"grand"})

\* C18 witness: a run with both forks and the reclaimer is over in every
\* process; the original process and the first child are dead and the
\* grandchild is back in its caller.
C18_Witness ==
    /\ AllDone
    /\ ForkCalls = 2
    /\ Redirected("grand")
    /\ Returned("grand")
    /\ pc["grand"] = "caller"
    /\ pc["orig"] = "dead"
    /\ pc["child"] = "dead"

\* The expiry of a record of a table.
Expiry(tbl, row) ==
    IF tbl = "throttle_tracking" THEN row.init_time + row.period
    ELSE row.record_expired

\* C19: with now captured once at the start, the delete of each table
\* removes exactly the records it finds with init_time + period < now
\* (throttle_tracking) or record_expired < now (greylisting_tracking); a
\* record whose expiry is now or later is never deleted; and when no other
\* writer changed the table between the two counts, the logged 'removed'
\* figure is the number of records deleted.
C19_ExpiredRemoved ==
    /\ cpc.at \notin {"off", "start"} => now \in Times
    /\ \A tbl \in swept :
          /\ deleted[tbl] =
                 {id \in Ids : /\ atdelete[tbl][id].present
                               /\ Expiry(tbl, atdelete[tbl][id]) < now}
          /\ \A id \in Ids :
                 (/\ atdelete[tbl][id].present
                  /\ Expiry(tbl, atdelete[tbl][id]) >= now) =>
                     /\ id \notin deleted[tbl]
                     /\ ~wrote[tbl] => db[tbl][id] = atdelete[tbl][id]
          /\ ~wrote[tbl] => \A id \in deleted[tbl] : ~db[tbl][id].present
          /\ (logged[tbl] # << >> /\ ~wrote[tbl]) =>
                 /\ logged[tbl][1] = Cardinality(deleted[tbl])
                 /\ logged[tbl][2] = sql_count_id(db, tbl)

\* C19 witness: the script is over, with a now of two digits; in
\* throttle_tracking the delete found one record
\* expired before now and one expiring at now, removed the first and kept
\* the second, and logged one removed, one left; in greylisting_tracking it
\* removed a record too; no other writer came.
C19_Witness ==
    /\ cpc.at = "done"
    /\ now = 10
    /\ \A tbl \in Tables : ~wrote[tbl]
    /\ \E id \in Ids : /\ atdelete["throttle_tracking"][id].present
                       /\ Expiry("throttle_tracking",
                                 atdelete["throttle_tracking"][id]) = now
                       /\ db["throttle_tracking"][id].present
    /\ Cardinality(deleted["throttle_tracking"]) = 1
    /\ logged["throttle_tracking"] = <<1, 1>>
    /\ logged["greylisting_tracking"] = <<1, 0>>

====
